---- MODULE Spec2Model ----
(***************************************************************************)
(* Model of bmks/swapnil_scripts: check_mapping.c (the pagemap based       *)
(* virtual-to-physical address resolver and its interactive driver) and    *)
(* identity_map.c (the launcher around the process registration call).     *)
(*                                                                         *)
(* A 64-bit unsigned value (uintptr_t, unsigned long) is a tuple of 8      *)
(* bytes, most significant byte first, so that all arithmetic is exact     *)
(* modulo 2^64.                                                            *)
(***************************************************************************)
EXTENDS Integers, Sequences, FiniteSets, TLC

\* ------------------------------------------------------------------------
\* 64-bit unsigned arithmetic on 8-byte tuples (index 1 = bits 63..56).

PAGEMAP_ENTRY == 8

Zero64 == <<0, 0, 0, 0, 0, 0, 0, 0>>

\* An int 0 <= n < 2^31 converted to a 64-bit unsigned value.
FromInt(n) ==
    [k \in 1..8 |-> IF k <= 4 THEN 0 ELSE (n \div (256 ^ (8 - k))) % 256]

RECURSIVE AndByte(_, _)
AndByte(a, b) ==
    IF a = 0 \/ b = 0 THEN 0
    ELSE (a % 2) * (b % 2) + 2 * AndByte(a \div 2, b \div 2)

OrByte(a, b) == a + b - AndByte(a, b)

\* x & y
And64(x, y) == [k \in 1..8 |-> AndByte(x[k], y[k])]

\* x | y
Or64(x, y) == [k \in 1..8 |-> OrByte(x[k], y[k])]

\* (x << 8) + c for a byte c: the low byte of x << 8 is 0, so no carry.
Shl8Add(x, c) == [k \in 1..8 |-> IF k < 8 THEN x[k + 1] ELSE c]

RECURSIVE MulFrom(_, _, _, _)
MulFrom(x, n, k, carry) ==
    IF k = 0 THEN <<>>
    ELSE LET p == x[k] * n + carry
         IN  Append(MulFrom(x, n, k - 1, p \div 256), p % 256)

\* x * n modulo 2^64, for 0 < n < 2^22.
Mul64(x, n) == MulFrom(x, n, 8, 0)

RECURSIVE DivFrom(_, _, _, _)
DivFrom(x, n, k, rem) ==
    IF k > 8 THEN <<>>
    ELSE LET cur == rem * 256 + x[k]
         IN  <<cur \div n>> \o DivFrom(x, n, k + 1, cur % n)

\* x / n (unsigned integer division), for 0 < n < 2^22.
Div64(x, n) == DivFrom(x, n, 1, 0)

RECURSIVE AddFrom(_, _, _, _)
AddFrom(x, y, k, carry) ==
    IF k = 0 THEN <<>>
    ELSE LET s == x[k] + y[k] + carry
         IN  Append(AddFrom(x, y, k - 1, s \div 256), s % 256)

\* x + y modulo 2^64.
Add64(x, y) == AddFrom(x, y, 8, 0)

RECURSIVE LessFrom(_, _, _)
LessFrom(x, y, k) ==
    IF k > 8 THEN FALSE
    ELSE IF x[k] # y[k] THEN x[k] < y[k]
    ELSE LessFrom(x, y, k + 1)

\* x < y
Less64(x, y) == LessFrom(x, y, 1)

\* Bit j (0 = least significant) of x.
Bit(x, j) == (x[8 - (j \div 8)] \div (2 ^ (j % 8))) % 2


\* ------------------------------------------------------------------------
\* check_mapping.c: inputs and environment.

\* Bound on the number of non-zero addresses the driver reads from its input.
MaxInputs == 2

\* (1ULL << 63), the "page present" bit.
PRESENT_BIT == <<128, 0, 0, 0, 0, 0, 0, 0>>

\* ((1ULL << 55) - 1), the page frame number mask 0x007FFFFFFFFFFFFF.
PFN_MASK == <<0, 127, 255, 255, 255, 255, 255, 255>>

\* Page sizes the runtime may report (getpagesize, sysconf(_SC_PAGESIZE)).
PageSizes == {4096, 65536}

\* Pagemap records (logical 64-bit values) the kernel may expose.
R_ZERO  == Zero64                                \* 0x0000000000000000
R_SWAP  == <<64, 0, 0, 0, 0, 171, 205, 239>>     \* 0x4000000000ABCDEF
R_P0    == <<128, 0, 0, 0, 0, 0, 0, 0>>          \* 0x8000000000000000
R_P1    == <<128, 0, 0, 0, 0, 0, 0, 1>>          \* 0x8000000000000001
R_P123  == <<128, 0, 0, 0, 0, 0, 1, 35>>         \* 0x8000000000000123
R_FLAGS == <<255, 128, 0, 0, 0, 0, 1, 35>>       \* 0xFF80000000000123
R_BIG   == <<128, 16, 0, 0, 0, 0, 0, 1>>         \* 0x8010000000000001
Records == {R_ZERO, R_SWAP, R_P0, R_P1, R_P123, R_FLAGS, R_BIG}

\* Virtual addresses typed into the driver.
VA_ZERO == Zero64
VA_A    == <<0, 0, 0, 0, 0, 69, 103, 137>>           \* 0x456789
VA_A0   == <<0, 0, 0, 0, 0, 69, 96, 0>>              \* 0x456000
VA_B    == <<0, 0, 0, 0, 0, 69, 113, 35>>            \* 0x457123
VA_HIGH == <<255, 255, 255, 255, 255, 255, 241, 35>> \* 0xFFFFFFFFFFFFF123
InputAddrs == {VA_ZERO, VA_A, VA_A0, VA_B, VA_HIGH}

\* Where the driver's local variable addr may live.
StackAddrs == {<<0, 0, 127, 252, 18, 52, 86, 120>>}  \* 0x7FFC12345678

\* Lengths in bytes of the mapping file: 2^38 (records of a 47-bit address
\* space of 4096-byte pages), and 0x22B4, which ends inside a record.
FileLens == {<<0, 0, 0, 64, 0, 0, 0, 0>>, <<0, 0, 0, 0, 0, 0, 34, 180>>}

\* c_buf before the read loop has written it.
Indeterminate == [k \in 1..8 |-> -1]

NoCall == [va |-> Zero64, kind |-> "none", ret |-> Zero64, record_at |-> <<>>]

VARIABLES
    bigendian,    \* is_bigendian() of the host
    pagesize,     \* page size reported by the runtime
    pagemap,      \* the record the mapping file holds for each page
    file_len,     \* length of the mapping file in bytes
    open_handles, \* FILE handles currently open
    main_pc, addr, phys_addr, scanf_ret, exit_code, n_inputs,
    pc, virt_addr, file_offset, read_val, i, c, status, c_buf, f, fpos,
    retval, msg,
    n_fopen, n_fclose, n_fseek, n_getc, \* library calls made by this call
    read_at,      \* file positions of the bytes read by this call
    assembled,    \* read_val as left by the assembling loop
    outcome,      \* the exit path this call took
    prev          \* the previous call: its address, outcome and result, and
                  \* the positions of the record it read (if it read one)

envvars == <<bigendian, pagesize, pagemap, file_len>>
mainvars == <<main_pc, addr, phys_addr, scanf_ret, exit_code, n_inputs>>
resvars == <<pc, virt_addr, file_offset, read_val, i, c, status, c_buf, f,
             fpos, retval, msg, open_handles>>
ghostvars == <<n_fopen, n_fclose, n_fseek, n_getc, read_at, assembled,
               outcome, prev>>
cmvars == <<envvars, mainvars, resvars, ghostvars>>

\* identity_map.c
VARIABLES
    argv,           \* the command line; argc is its length
    im_pc,          \* where the launcher (the parent) is
    im_ret,         \* ret
    process_names,  \* process_names[0]
    pid,            \* what fork returned in the parent
    wstatus,        \* status, as set by wait
    child_pc,       \* the forked child: none, exec, running, exited
    child_exit,     \* the child's exit code
    syscalls,       \* the registration calls issued, in order
    im_exit         \* the launcher's exit status

imvars == <<argv, im_pc, im_ret, process_names, pid, wstatus, child_pc,
            child_exit, syscalls, im_exit>>

vars == <<cmvars, imvars>>

\* The 8 bytes of the 64-bit value v as they lie in the memory of the host.
NativeBytes(v, big) == [k \in 1..8 |-> IF big THEN v[k] ELSE v[9 - k]]

\* The byte of the mapping file at byte position pos.
FileByteAt(pos) == NativeBytes(pagemap, bigendian)[(pos[8] % 8) + 1]

CMInit ==
    /\ bigendian \in BOOLEAN
    /\ pagesize \in PageSizes
    /\ pagemap \in Records
    /\ file_len \in FileLens
    /\ open_handles = 0
    /\ main_pc = "start"
    /\ addr = FromInt(1)
    /\ phys_addr = Zero64
    /\ scanf_ret = 0
    /\ exit_code = -1
    /\ n_inputs = 0
    /\ pc = "idle"
    /\ virt_addr = Zero64
    /\ file_offset = Zero64
    /\ read_val = Zero64
    /\ i = 0
    /\ c = 0
    /\ status = 0
    /\ c_buf = Indeterminate
    /\ f = "NULL"
    /\ fpos = Zero64
    /\ retval = Zero64
    /\ msg = "none"
    /\ n_fopen = 0
    /\ n_fclose = 0
    /\ n_fseek = 0
    /\ n_getc = 0
    /\ read_at = <<>>
    /\ assembled = Zero64
    /\ outcome = "none"
    /\ prev = NoCall

\* Entry of virtual_to_physical_address(va): the local declarations.
Call(va) ==
    /\ pc' = "fopen"
    /\ virt_addr' = va
    /\ file_offset' = Zero64
    /\ read_val' = Zero64
    /\ i' = 0
    /\ c' = 0
    /\ status' = 0
    /\ c_buf' = Indeterminate
    /\ f' = "NULL"
    /\ fpos' = Zero64
    /\ retval' = Zero64
    /\ msg' = "none"
    /\ n_fopen' = 0
    /\ n_fclose' = 0
    /\ n_fseek' = 0
    /\ n_getc' = 0
    /\ read_at' = <<>>
    /\ assembled' = Zero64
    /\ outcome' = "none"
    /\ UNCHANGED <<open_handles, prev>>

\* The call has returned to main: its frame is gone.
PopFrame ==
    /\ pc = "return"
    /\ pc' = "idle"
    /\ prev' = [va |-> virt_addr, kind |-> outcome, ret |-> retval,
                record_at |-> IF outcome \in {"Resident", "NotResident"}
                              THEN read_at ELSE <<>>]
    /\ virt_addr' = Zero64
    /\ file_offset' = Zero64
    /\ read_val' = Zero64
    /\ i' = 0
    /\ c' = 0
    /\ status' = 0
    /\ c_buf' = Indeterminate
    /\ f' = "NULL"
    /\ fpos' = Zero64
    /\ retval' = Zero64
    /\ msg' = "none"
    /\ n_fopen' = 0
    /\ n_fclose' = 0
    /\ n_fseek' = 0
    /\ n_getc' = 0
    /\ read_at' = <<>>
    /\ assembled' = Zero64
    /\ outcome' = "none"
    /\ UNCHANGED open_handles

\* fclose(f) followed by return v, on the exit path named kind.
CloseAndReturn(v, kind) ==
    /\ f' = "closed"
    /\ open_handles' = open_handles - 1
    /\ n_fclose' = n_fclose + 1
    /\ retval' = v
    /\ outcome' = kind
    /\ pc' = "return"

\* FILE *f = fopen(page_mapping_file, "rb") succeeds.
FopenOk ==
    /\ pc = "fopen"
    /\ f' = "open"
    /\ open_handles' = open_handles + 1
    /\ n_fopen' = n_fopen + 1
    /\ pc' = "offset"
    /\ UNCHANGED <<imvars, envvars, mainvars, virt_addr, file_offset, read_val, i, c,
                   status, c_buf, fpos, retval, msg, n_fclose, n_fseek,
                   n_getc, read_at, assembled, outcome, prev>>

\* fopen returns NULL: the message is printed and 0 is returned.
FopenFail ==
    /\ pc = "fopen"
    /\ n_fopen' = n_fopen + 1
    /\ msg' = "cannot_open"
    /\ retval' = Zero64
    /\ outcome' = "ResourceUnavailable"
    /\ pc' = "return"
    /\ UNCHANGED <<imvars, envvars, mainvars, virt_addr, file_offset, read_val, i, c,
                   status, c_buf, f, fpos, open_handles, n_fclose, n_fseek,
                   n_getc, read_at, assembled, prev>>

\* Mutant: the page index is used as the byte offset.
FileOffset_NoScale(va, ps) == Div64(va, ps)

\* virt_addr / getpagesize() * PAGEMAP_ENTRY
FileOffset(va, ps) == Mul64(Div64(va, ps), PAGEMAP_ENTRY)

ComputeOffset ==
    /\ pc = "offset"
    /\ file_offset' = FileOffset(virt_addr, pagesize)
    /\ pc' = "fseek"
    /\ UNCHANGED <<imvars, envvars, mainvars, virt_addr, read_val, i, c, status,
                   c_buf, f, fpos, retval, msg, open_handles, ghostvars>>

\* status = fseek(f, file_offset, SEEK_SET) returns 0.
FseekOk ==
    /\ pc = "fseek"
    /\ status' = 0
    /\ fpos' = file_offset
    /\ n_fseek' = n_fseek + 1
    /\ pc' = "getc"
    /\ UNCHANGED <<imvars, envvars, mainvars, virt_addr, file_offset, read_val, i, c,
                   c_buf, f, retval, msg, open_handles, n_fopen, n_fclose,
                   n_getc, read_at, assembled, outcome, prev>>

\* fseek fails: the messages are printed, the file closed and 0 returned.
FseekFail ==
    /\ pc = "fseek"
    /\ status' = -1
    /\ n_fseek' = n_fseek + 1
    /\ msg' = "cannot_seek"
    /\ CloseAndReturn(Zero64, "SeekFailed")
    /\ UNCHANGED <<imvars, envvars, mainvars, virt_addr, file_offset, read_val, i, c,
                   c_buf, fpos, n_fopen, n_getc, read_at, assembled, prev>>

\* Mutant: the bytes are stored in file order whatever the host.
StoreByte_NoSwap(buf, k, ch) == [buf EXCEPT ![k + 1] = ch]

\* c_buf after the byte ch of loop index k has been stored.
StoreByte(buf, k, ch) ==
    IF bigendian THEN [buf EXCEPT ![k + 1] = ch]
    ELSE [buf EXCEPT ![PAGEMAP_ENTRY - k - 1 + 1] = ch]

\* One iteration of the read loop in which getc returns a byte.
GetcByte ==
    /\ pc = "getc"
    /\ i < PAGEMAP_ENTRY
    /\ Less64(fpos, file_len)
    /\ c' = FileByteAt(fpos)
    /\ c_buf' = StoreByte(c_buf, i, c')
    /\ read_at' = Append(read_at, fpos)
    /\ fpos' = Add64(fpos, FromInt(1))
    /\ n_getc' = n_getc + 1
    /\ IF i + 1 < PAGEMAP_ENTRY
       THEN i' = i + 1 /\ pc' = "getc"
       ELSE i' = 0 /\ pc' = "assemble"   \* for(i=0; ...) of the next loop
    /\ UNCHANGED <<imvars, envvars, mainvars, virt_addr, file_offset, read_val,
                   status, f, retval, msg, open_handles, n_fopen, n_fclose,
                   n_fseek, assembled, outcome, prev>>

\* Mutant: the end-of-data exit returns without fclose.
GetcEOF_Leak ==
    /\ pc = "getc"
    /\ i < PAGEMAP_ENTRY
    /\ c' = -1
    /\ n_getc' = n_getc + 1
    /\ retval' = Zero64
    /\ outcome' = "EndOfMapping"
    /\ pc' = "return"
    /\ UNCHANGED <<imvars, envvars, mainvars, virt_addr, file_offset, read_val,
                   i, status, c_buf, f, fpos, msg, open_handles, n_fopen,
                   n_fclose, n_fseek, read_at, assembled, prev>>

\* getc returns EOF (end of the file, or a read error): close and return 0.
GetcEOF ==
    /\ pc = "getc"
    /\ i < PAGEMAP_ENTRY
    /\ c' = -1
    /\ n_getc' = n_getc + 1
    /\ CloseAndReturn(Zero64, "EndOfMapping")
    /\ UNCHANGED <<imvars, envvars, mainvars, virt_addr, file_offset, read_val, i,
                   status, c_buf, fpos, msg, n_fopen, n_fseek, read_at,
                   assembled, prev>>

\* One iteration of the assembling loop.
Assemble ==
    /\ pc = "assemble"
    /\ i < PAGEMAP_ENTRY
    /\ read_val' = Shl8Add(read_val, c_buf[i + 1])
    /\ i' = i + 1
    /\ pc' = IF i + 1 < PAGEMAP_ENTRY THEN "assemble" ELSE "present"
    /\ assembled' = IF i + 1 < PAGEMAP_ENTRY THEN assembled ELSE read_val'
    /\ UNCHANGED <<imvars, envvars, mainvars, virt_addr, file_offset, c, status,
                   c_buf, f, fpos, retval, msg, open_handles, n_fopen,
                   n_fclose, n_fseek, n_getc, read_at, outcome, prev>>

\* read_val & (1ULL << 63)
IsPresent(v) == And64(v, PRESENT_BIT) # Zero64

\* The test of the present bit; the else branch prints "Page not present".
TestPresent ==
    /\ pc = "present"
    /\ IF IsPresent(read_val)
       THEN /\ pc' = "mask"
            /\ msg' = msg
       ELSE /\ pc' = "fclose"
            /\ msg' = "not_present"
    /\ UNCHANGED <<imvars, envvars, mainvars, virt_addr, file_offset, read_val, i, c,
                   status, c_buf, f, fpos, retval, open_handles, ghostvars>>

\* Mutant: the mask keeps 56 bits, 0x00FFFFFFFFFFFFFF.
GetPfn_Wide(v) == And64(v, <<0, 255, 255, 255, 255, 255, 255, 255>>)

\* read_val & ((1ULL << 55) - 1)
GetPfn(v) == And64(v, PFN_MASK)

MaskPfn ==
    /\ pc = "mask"
    /\ read_val' = GetPfn(read_val)
    /\ pc' = "mul"
    /\ UNCHANGED <<imvars, envvars, mainvars, virt_addr, file_offset, i, c, status,
                   c_buf, f, fpos, retval, msg, open_handles, ghostvars>>

\* Mutant: the page frame number is scaled by the record size.
FrameAddress_RecordSize(pfn, ps) == Mul64(pfn, PAGEMAP_ENTRY)

\* read_val * sysconf(_SC_PAGESIZE)
FrameAddress(pfn, ps) == Mul64(pfn, ps)

MulPageSize ==
    /\ pc = "mul"
    /\ read_val' = FrameAddress(read_val, pagesize)
    /\ pc' = "or"
    /\ UNCHANGED <<imvars, envvars, mainvars, virt_addr, file_offset, i, c, status,
                   c_buf, f, fpos, retval, msg, open_handles, ghostvars>>

\* Mutant: the offset mask is the page size, not the page size minus one.
AddPageOffset_MaskPageSize(v, va, ps) == Or64(v, And64(va, FromInt(ps)))

\* read_val | (virt_addr & (sysconf(_SC_PAGESIZE) - 1))
AddPageOffset(v, va, ps) == Or64(v, And64(va, FromInt(ps - 1)))

OrOffset ==
    /\ pc = "or"
    /\ read_val' = AddPageOffset(read_val, virt_addr, pagesize)
    /\ pc' = "fclose"
    /\ UNCHANGED <<imvars, envvars, mainvars, virt_addr, file_offset, i, c, status,
                   c_buf, f, fpos, retval, msg, open_handles, ghostvars>>

\* fclose(f); return read_val;
FcloseReturn ==
    /\ pc = "fclose"
    /\ CloseAndReturn(read_val,
                      IF msg = "not_present" THEN "NotResident" ELSE "Resident")
    /\ UNCHANGED <<imvars, envvars, mainvars, virt_addr, file_offset, read_val, i, c,
                   status, c_buf, fpos, msg, n_fopen, n_fseek, n_getc,
                   read_at, assembled, prev>>

\* ------------------------------------------------------------------------
\* check_mapping.c: main.

\* The two printf calls before the loop; the second one's argument calls
\* virtual_to_physical_address((uintptr_t)&addr).
MainStart ==
    /\ main_pc = "start"
    /\ \E sa \in StackAddrs : Call(sa)
    /\ main_pc' = "stack_call"
    /\ UNCHANGED <<imvars, envvars, addr, phys_addr, scanf_ret, exit_code, n_inputs>>

\* The stack address line is printed.
MainStackPrinted ==
    /\ main_pc = "stack_call"
    /\ PopFrame
    /\ main_pc' = "while"
    /\ UNCHANGED <<imvars, envvars, addr, phys_addr, scanf_ret, exit_code, n_inputs>>

\* while( addr > 0 ), and return 0 after the loop.
MainWhile ==
    /\ main_pc = "while"
    /\ IF addr # Zero64
       THEN /\ main_pc' = "scanf"
            /\ UNCHANGED exit_code
       ELSE /\ main_pc' = "exited"
            /\ exit_code' = 0
    /\ UNCHANGED <<imvars, envvars, addr, phys_addr, scanf_ret, n_inputs, resvars,
                   ghostvars>>

\* ret = scanf("%lx", &addr) converts one hexadecimal number.
ScanfValue ==
    /\ main_pc = "scanf"
    /\ \E v \in InputAddrs :
          /\ v # Zero64 => n_inputs < MaxInputs
          /\ addr' = v
          /\ n_inputs' = IF v # Zero64 THEN n_inputs + 1 ELSE n_inputs
    /\ scanf_ret' = 1
    /\ main_pc' = "assert"
    /\ UNCHANGED <<imvars, envvars, phys_addr, exit_code, resvars, ghostvars>>

\* scanf meets text that is no hexadecimal number (0) or end-of-input (-1);
\* addr is left as it was.
ScanfNoValue ==
    /\ main_pc = "scanf"
    /\ scanf_ret' \in {0, -1}
    /\ main_pc' = "assert"
    /\ UNCHANGED <<imvars, envvars, addr, phys_addr, exit_code, n_inputs, resvars,
                   ghostvars>>

\* assert(ret == 1) holds; virtual_to_physical_address(addr) is called.
AssertOk ==
    /\ main_pc = "assert"
    /\ scanf_ret = 1
    /\ Call(addr)
    /\ main_pc' = "call"
    /\ UNCHANGED <<imvars, envvars, addr, phys_addr, scanf_ret, exit_code, n_inputs>>

\* assert(ret == 1) fails: abort() raises SIGABRT (status 128 + 6).
AssertFail ==
    /\ main_pc = "assert"
    /\ scanf_ret # 1
    /\ main_pc' = "aborted"
    /\ exit_code' = 134
    /\ UNCHANGED <<imvars, envvars, addr, phys_addr, scanf_ret, n_inputs, resvars,
                   ghostvars>>

\* phys_addr = <the call's result>; the vaddr/paddr line is printed.
MainPrint ==
    /\ main_pc = "call"
    /\ phys_addr' = retval
    /\ PopFrame
    /\ main_pc' = "while"
    /\ UNCHANGED <<imvars, envvars, addr, scanf_ret, exit_code, n_inputs>>

CMNext ==
    \/ FopenOk \/ FopenFail \/ ComputeOffset \/ FseekOk \/ FseekFail
    \/ GetcByte \/ GetcEOF \/ Assemble \/ TestPresent \/ MaskPfn
    \/ MulPageSize \/ OrOffset \/ FcloseReturn
    \/ MainStart \/ MainStackPrinted \/ MainWhile \/ ScanfValue
    \/ ScanfNoValue \/ AssertOk \/ AssertFail \/ MainPrint

\* ------------------------------------------------------------------------
\* identity_map.c.  The command path argv[2] of "command" mode is a
\* sequence of characters, every other argument a string.

SYS_IDENTITY_MAP == 335

CMD_LS    == <<"l", "s">>
CMD_AOUT  == <<".", "/", "a", ".", "o", "u", "t">>
CMD_BINLS == <<"/", "b", "i", "n", "/", "l", "s">>

\* The command lines the launcher is started with (argv[0] first).
CommandLines ==
    { <<"identity-map">>,
      <<"identity-map", "command">>,
      <<"identity-map", "command", CMD_LS>>,
      <<"identity-map", "command", CMD_AOUT, "-v">>,
      <<"identity-map", "command", CMD_BINLS>>,
      <<"identity-map", "name", "stable", "gem5", "omp-csr">>,
      <<"identity-map", "name", "testing", "gem5">>,
      <<"identity-map", "name", "other">>,
      <<"identity-map", "name">>,
      <<"identity-map", "pid", "1124", "2346">>,
      <<"identity-map", "help">>,
      <<"identity-map", "bogus">> }

\* What the registration call may return.
SyscallResults == {-1, 0, 1}

\* Exit codes of the launched command.
ChildExitCodes == {0, 1}

argc == Len(argv)

\* The last index of "/" in path, 0 when there is none.
RECURSIVE LastSlash(_, _)
LastSlash(path, k) ==
    IF k = 0 THEN 0
    ELSE IF path[k] = "/" THEN k
    ELSE LastSlash(path, k - 1)

\* basename(path) of libgen.h, for a path that does not end in "/".
basename(path) ==
    IF path = <<>> THEN <<".">>
    ELSE SubSeq(path, LastSlash(path, Len(path)) + 1, Len(path))

\* The status a waiting process sees for exit(v) or main returning v.
ExitStatus(v) == v % 256

\* syscall(335, names, count, mode) issued by who, returning r.
Syscall(who, names, count, mode, r) ==
    syscalls' = Append(syscalls,
                       [nr |-> SYS_IDENTITY_MAP, by |-> who, names |-> names,
                        count |-> count, mode |-> mode, ret |-> r,
                        child |-> child_pc])

IMInit ==
    /\ argv \in CommandLines
    /\ im_pc = "start"
    /\ im_ret = 0
    /\ process_names = <<>>
    /\ pid = 0
    /\ wstatus = -1
    /\ child_pc = "none"
    /\ child_exit = -1
    /\ syscalls = <<>>
    /\ im_exit = -1

\* argc < 2, "command" without a command, "help", or an unknown mode: a
\* message is printed and main returns -1.
IMUsage ==
    /\ im_pc = "start"
    /\ \/ argc < 2
       \/ argc >= 2 /\ argv[2] = "command" /\ argc < 3
       \/ argc >= 3 /\ argv[2] = "name" /\ argv[3] \notin {"stable", "testing"}
       \/ argc >= 2 /\ argv[2] \notin {"command", "name", "pid"}
    /\ im_pc' = "exited"
    /\ im_exit' = ExitStatus(-1)
    /\ UNCHANGED <<cmvars, argv, im_ret, process_names, pid, wstatus, child_pc,
                   child_exit, syscalls>>

\* "name" with nothing after it: strcmp(argv[2], "stable") reads through the
\* null pointer argv[argc].  The process is killed, or the comparisons come
\* out unequal and the unknown-mode message is printed.
IMNameNull ==
    /\ im_pc = "start"
    /\ argc = 2
    /\ argv[2] = "name"
    /\ \/ /\ im_pc' = "killed"
          /\ im_exit' = 139
       \/ /\ im_pc' = "exited"
          /\ im_exit' = ExitStatus(-1)
    /\ UNCHANGED <<cmvars, argv, im_ret, process_names, pid, wstatus, child_pc,
                   child_exit, syscalls>>

\* "name stable", "name testing" and "pid": one registration call.
IMRegisterList ==
    /\ im_pc = "start"
    /\ \E r \in SyscallResults :
          /\ \/ /\ argc >= 3 /\ argv[2] = "name" /\ argv[3] = "stable"
                /\ Syscall("parent", SubSeq(argv, 4, argc), argc - 3, 1, r)
             \/ /\ argc >= 3 /\ argv[2] = "name" /\ argv[3] = "testing"
                /\ Syscall("parent", SubSeq(argv, 4, argc), argc - 3, 2, r)
             \/ /\ argc >= 2 /\ argv[2] = "pid"
                /\ Syscall("parent", SubSeq(argv, 3, argc), argc - 2, -1, r)
          /\ im_ret' = r
    /\ im_pc' = "return"
    /\ UNCHANGED <<cmvars, argv, process_names, pid, wstatus, child_pc, child_exit,
                   im_exit>>

\* "command": process_names[0] = basename(argv[2]);
\* ret = syscall(335, process_names, 1, 1);
IMRegisterCommand ==
    /\ im_pc = "start"
    /\ argc >= 3
    /\ argv[2] = "command"
    /\ process_names' = <<basename(argv[3])>>
    /\ \E r \in SyscallResults :
          /\ Syscall("parent", process_names', 1, 1, r)
          /\ im_ret' = r
    /\ im_pc' = "fork"
    /\ UNCHANGED <<cmvars, argv, pid, wstatus, child_pc, child_exit, im_exit>>

\* fork() returns -1: perror, break.
IMForkFail ==
    /\ im_pc = "fork"
    /\ pid' = -1
    /\ im_pc' = "clear"
    /\ UNCHANGED <<cmvars, argv, im_ret, process_names, wstatus, child_pc,
                   child_exit, syscalls, im_exit>>

\* fork() creates the child, which is about to call execvp.
IMForkOk ==
    /\ im_pc = "fork"
    /\ pid' = 1
    /\ child_pc' = "exec"
    /\ im_pc' = "launched"
    /\ UNCHANGED <<cmvars, argv, im_ret, process_names, wstatus, child_exit,
                   syscalls, im_exit>>

\* Child: execvp(argv[2], &argv[2]) replaces the child by the command.
ChildExecOk ==
    /\ child_pc = "exec"
    /\ child_pc' = "running"
    /\ UNCHANGED <<cmvars, argv, im_pc, im_ret, process_names, pid, wstatus,
                   child_exit, syscalls, im_exit>>

\* Mutant: the child leaves the switch after a failed execvp, issues the
\* clearing call and returns its result.
ChildExecFail_Break ==
    /\ child_pc = "exec"
    /\ child_pc' = "exited"
    /\ \E r \in SyscallResults :
          /\ Syscall("child", <<>>, 0, 1, r)
          /\ child_exit' = ExitStatus(r)
    /\ UNCHANGED <<cmvars, argv, im_pc, im_ret, process_names, pid, wstatus,
                   im_exit>>

\* Child: execvp returns (it failed); exit(0).
ChildExecFail ==
    /\ child_pc = "exec"
    /\ child_pc' = "exited"
    /\ child_exit' = 0
    /\ UNCHANGED <<cmvars, argv, im_pc, im_ret, process_names, pid, wstatus,
                   syscalls, im_exit>>

\* The launched command terminates.
ChildTerminates ==
    /\ child_pc = "running"
    /\ child_pc' = "exited"
    /\ child_exit' \in ChildExitCodes
    /\ UNCHANGED <<cmvars, argv, im_pc, im_ret, process_names, pid, wstatus,
                   syscalls, im_exit>>

\* Parent: printf("Badger Trap launched with process %s\n", argv[2]);
IMLaunched ==
    /\ im_pc = "launched"
    /\ im_pc' = "wait"
    /\ UNCHANGED <<cmvars, argv, im_ret, process_names, pid, wstatus, child_pc,
                   child_exit, syscalls, im_exit>>

\* Parent: wait(&status) returns once the child has terminated.
IMWait ==
    /\ im_pc = "wait"
    /\ child_pc = "exited"
    /\ wstatus' = child_exit
    /\ child_pc' = "reaped"
    /\ im_pc' = "clear"
    /\ UNCHANGED <<cmvars, argv, im_ret, process_names, pid, child_exit, syscalls,
                   im_exit>>

\* ret = syscall(335, NULL, 0, 1);
IMClear ==
    /\ im_pc = "clear"
    /\ \E r \in SyscallResults :
          /\ Syscall("parent", <<>>, 0, 1, r)
          /\ im_ret' = r
    /\ im_pc' = "return"
    /\ UNCHANGED <<cmvars, argv, process_names, pid, wstatus, child_pc, child_exit,
                   im_exit>>

\* return ret;
IMReturn ==
    /\ im_pc = "return"
    /\ im_exit' = ExitStatus(im_ret)
    /\ im_pc' = "exited"
    /\ UNCHANGED <<cmvars, argv, im_ret, process_names, pid, wstatus, child_pc,
                   child_exit, syscalls>>

IMNext ==
    \/ IMUsage \/ IMNameNull \/ IMRegisterList \/ IMRegisterCommand
    \/ IMForkFail \/ IMForkOk \/ ChildExecOk \/ ChildExecFail
    \/ ChildTerminates \/ IMLaunched \/ IMWait \/ IMClear \/ IMReturn

\* identity_map is not running.
IMOff ==
    /\ argv = <<"identity-map">>
    /\ im_pc = "off"
    /\ im_ret = 0
    /\ process_names = <<>>
    /\ pid = 0
    /\ wstatus = -1
    /\ child_pc = "none"
    /\ child_exit = -1
    /\ syscalls = <<>>
    /\ im_exit = -1

\* check_mapping is not running.
CMOff ==
    /\ bigendian = FALSE
    /\ pagesize = 4096
    /\ pagemap = Zero64
    /\ file_len = Zero64
    /\ open_handles = 0
    /\ main_pc = "off"
    /\ addr = Zero64
    /\ phys_addr = Zero64
    /\ scanf_ret = 0
    /\ exit_code = -1
    /\ n_inputs = 0
    /\ pc = "idle"
    /\ virt_addr = Zero64
    /\ file_offset = Zero64
    /\ read_val = Zero64
    /\ i = 0
    /\ c = 0
    /\ status = 0
    /\ c_buf = Indeterminate
    /\ f = "NULL"
    /\ fpos = Zero64
    /\ retval = Zero64
    /\ msg = "none"
    /\ n_fopen = 0
    /\ n_fclose = 0
    /\ n_fseek = 0
    /\ n_getc = 0
    /\ read_at = <<>>
    /\ assembled = Zero64
    /\ outcome = "none"
    /\ prev = NoCall

Init == CMInit /\ IMOff

\* check_mapping as a process.
Spec == Init /\ [][CMNext]_vars

InitIdentityMap == IMInit /\ CMOff

\* identity_map as a process.
SpecIdentityMap == InitIdentityMap /\ [][IMNext]_vars

\* ------------------------------------------------------------------------
\* Properties of check_mapping.c.  They are stated bit by bit (Bit), not
\* with the arithmetic operators the actions use.

RECURSIVE Log2(_)
Log2(n) == IF n <= 1 THEN 0 ELSE 1 + Log2(n \div 2)

\* The call read a whole record and has returned.
ReturnedRecord == pc = "return" /\ outcome \in {"Resident", "NotResident"}

\* v == ((pfn of rec) * ps) | (va & (ps - 1)) modulo 2^64, for ps = 2^sh.
IsPhysicalAddress(v, rec, va, ps) ==
    LET sh == Log2(ps)
    IN  \A j \in 0..63 :
           Bit(v, j) = IF j < sh THEN Bit(va, j)
                       ELSE IF j - sh < 55 THEN Bit(rec, j - sh)
                       ELSE 0

\* C1: whenever the record of the page has bit 63 set, the call returns on
\* the resident path with (page_frame_number * page_size) | (va & (page_size
\* - 1)) in 64-bit unsigned arithmetic, the page frame number being the low
\* 55 bits of the record; page size 4096, PFN 0x123 and va 0x456789 give
\* 0x123789.
C1_PhysicalAddress ==
    (ReturnedRecord /\ Bit(pagemap, 63) = 1) =>
        /\ outcome = "Resident"
        /\ msg = "none"
        /\ IsPhysicalAddress(retval, pagemap, virt_addr, pagesize)
        /\ (pagesize = 4096 /\ virt_addr = VA_A /\ GetPfn(pagemap) = FromInt(291))
               => retval = <<0, 0, 0, 0, 0, 18, 55, 137>>

C1_Witness ==
    /\ ReturnedRecord
    /\ pagesize = 4096
    /\ pagemap = R_P123
    /\ virt_addr = VA_A
    /\ retval = <<0, 0, 0, 0, 0, 18, 55, 137>>

\* C2: decoding never fails once 8 bytes were read; the present branch is
\* taken exactly when bit 63 of the assembled value is set, and the page
\* frame number then kept is the assembled value's bits 0..54 (bits 55..63
\* become 0); the all-zero record is not present and 0x8000000000000001 is
\* present with page frame number 1.
C2_Decode ==
    /\ (pc = "return" /\ n_getc = PAGEMAP_ENTRY /\ c # -1) => ReturnedRecord
    /\ pc = "mask" => Bit(assembled, 63) = 1
    /\ (pc \in {"fclose", "return"} /\ msg = "not_present")
           => Bit(assembled, 63) = 0
    /\ (pc \in {"fclose", "return"} /\ n_getc = PAGEMAP_ENTRY /\ c # -1
            /\ Bit(assembled, 63) = 0) => msg = "not_present"
    /\ pc = "mul" =>
           /\ Bit(assembled, 63) = 1
           /\ \A j \in 0..63 :
                 Bit(read_val, j) = IF j < 55 THEN Bit(assembled, j) ELSE 0
           /\ assembled = R_P1 => read_val = FromInt(1)
    /\ (pc \in {"mask", "mul", "or"}) => assembled # Zero64

C2_Witness ==
    /\ pc = "mul"
    /\ assembled = R_FLAGS
    /\ read_val = FromInt(291)

\* C3: on a big-endian host and on a little-endian host alike, the bytes of
\* a 64-bit value as they lie in the file (host order) assemble to that
\* value: the first byte read is the most significant on a big-endian host
\* and the least significant on a little-endian one.
C3_Endianness ==
    pc = "present" =>
        /\ read_val = pagemap
        /\ c_buf[IF bigendian THEN 1 ELSE 8] = FileByteAt(file_offset)
        /\ IsPresent(read_val) = (Bit(pagemap, 63) = 1)

C3_Witness ==
    /\ pc = "present"
    /\ ~bigendian
    /\ pagemap = R_P123
    /\ read_val = R_P123
    /\ c_buf[8] = 35

\* C4 (as claimed): every record with bit 63 clear gives the one result
\* that the all-zero record gives (0): nothing of bits 0..62 of the record
\* reaches the caller.
C4_NotResidentSingleOutcome ==
    (ReturnedRecord /\ Bit(pagemap, 63) = 0) =>
        /\ outcome = "NotResident"
        /\ retval = Zero64

IsFailure(kind) == kind \in {"ResourceUnavailable", "SeekFailed", "EndOfMapping"}

IsResult(kind) == kind \in {"Resident", "NotResident"}

\* C5 (as claimed): a call that failed (open, seek, end of data) returns a
\* value that no call that read a record returns, so that the caller can
\* tell them apart; compared here between a call and the one before it.
C5_FailureDistinguishable ==
    (pc = "return" /\ prev.kind # "none") =>
        /\ (IsFailure(outcome) /\ IsResult(prev.kind)) => retval # prev.ret
        /\ (IsResult(outcome) /\ IsFailure(prev.kind)) => retval # prev.ret

\* C6: a call opens the mapping file at most once and closes it exactly
\* once on every exit path on which it was opened; no handle is open when
\* the call has returned; when fopen fails nothing is sought, read or closed.
C6_HandleReleased ==
    /\ n_fopen <= 1
    /\ n_fseek <= 1
    /\ open_handles = (IF f = "open" THEN 1 ELSE 0)
    /\ f = "NULL" => (n_fseek = 0 /\ n_getc = 0 /\ n_fclose = 0)
    /\ pc = "return" =>
           /\ n_fopen = 1
           /\ open_handles = 0
           /\ outcome = "ResourceUnavailable" => (f = "NULL" /\ n_fclose = 0)
           /\ outcome # "ResourceUnavailable" => (f = "closed" /\ n_fclose = 1)

C6_Witness ==
    /\ pc = "return"
    /\ outcome = "EndOfMapping"
    /\ n_getc = 5
    /\ n_fclose = 1
    /\ open_handles = 0

\* C7 (as claimed): when the input ends in a zero address or in
\* end-of-input, the driver ends with exit code 0 and never aborts.
C7_DriverExitsNormally ==
    (main_pc \in {"exited", "aborted"} /\ (addr = Zero64 \/ scanf_ret = -1))
        => (main_pc = "exited" /\ exit_code = 0)

\* The file offset (va / ps) * 8 for ps = 2^sh: va shifted right by sh and
\* left by 3.
IsRecordOffset(off, va, ps) ==
    LET sh == Log2(ps)
    IN  \A j \in 0..63 :
           Bit(off, j) = IF j < 3 THEN 0
                         ELSE IF j - 3 + sh <= 63 THEN Bit(va, j - 3 + sh)
                         ELSE 0

SamePage(a, b, ps) == \A j \in Log2(ps)..63 : Bit(a, j) = Bit(b, j)

\* C8: the bytes read are the 8 consecutive bytes from offset
\* (va / page_size) * 8 on; two calls for addresses of one page read the
\* same positions, and a call for the page after the previous call's page
\* reads the 8 positions right after it.
C8_RecordOffset ==
    /\ pc \in {"fseek", "getc", "assemble", "present", "mask", "mul", "or",
               "fclose"} => IsRecordOffset(file_offset, virt_addr, pagesize)
    /\ read_at # <<>> => IsRecordOffset(read_at[1], virt_addr, pagesize)
    /\ \A k \in 1..Len(read_at) : read_at[k] = Add64(read_at[1], FromInt(k - 1))
    /\ ReturnedRecord => Len(read_at) = PAGEMAP_ENTRY
    /\ (ReturnedRecord /\ prev.record_at # <<>>) =>
          /\ SamePage(prev.va, virt_addr, pagesize)
                 => read_at = prev.record_at
          /\ SamePage(Add64(prev.va, FromInt(pagesize)), virt_addr, pagesize)
                 => read_at[1] = Add64(prev.record_at[8], FromInt(1))

C8_Witness ==
    /\ ReturnedRecord
    /\ pagesize = 4096
    /\ prev.va = VA_A
    /\ virt_addr = VA_B
    /\ Len(prev.record_at) = PAGEMAP_ENTRY
    /\ prev.record_at[1] = <<0, 0, 0, 0, 0, 0, 34, 176>>
    /\ read_at[1] = <<0, 0, 0, 0, 0, 0, 34, 184>>

\* The page frame number of rec times ps = 2^sh is below 2^64.
ProductFits(rec, ps) ==
    \A j \in 0..54 : j + Log2(ps) > 63 => Bit(rec, j) = 0

\* v / ps is the page frame number of rec and v mod ps is va mod ps.
DecomposesBack(v, rec, va, ps) ==
    LET sh == Log2(ps)
    IN  /\ \A j \in 0..54 :
              Bit(rec, j) = IF j + sh <= 63 THEN Bit(v, j + sh) ELSE 0
        /\ \A j \in 55..63 : j + sh <= 63 => Bit(v, j + sh) = 0
        /\ \A j \in 0..(sh - 1) : Bit(v, j) = Bit(va, j)

\* C9 (as claimed): for every present record the address returned
\* decomposes back into the page frame number and the offset in the page.
C9_NoWrap ==
    (ReturnedRecord /\ outcome = "Resident") =>
        DecomposesBack(retval, pagemap, virt_addr, pagesize)

\* C9 (amended): that holds when page_frame_number * page_size < 2^64; the
\* offset in the page is kept in every case, and the '+' form of the
\* formula gives the value the '|' form gives.
C9_NoWrapWhenProductFits ==
    (ReturnedRecord /\ outcome = "Resident") =>
        /\ ProductFits(pagemap, pagesize)
               => DecomposesBack(retval, pagemap, virt_addr, pagesize)
        /\ \A j \in 0..(Log2(pagesize) - 1) : Bit(retval, j) = Bit(virt_addr, j)
        /\ retval = Add64(Mul64(GetPfn(pagemap), pagesize),
                          And64(virt_addr, FromInt(pagesize - 1)))

C9_Witness ==
    /\ ReturnedRecord
    /\ pagesize = 65536
    /\ pagemap = R_FLAGS
    /\ virt_addr = VA_B
    /\ retval = <<0, 0, 0, 0, 1, 35, 113, 35>>

\* ------------------------------------------------------------------------
\* Properties of identity_map.c.

CommandMode == argc >= 3 /\ argv[2] = "command"

IsClearing(call) == call.names = <<>> /\ call.count = 0

ClearingCalls == {k \in 1..Len(syscalls) : IsClearing(syscalls[k])}

\* C10: in "command" mode the registration call (the command's basename,
\* count 1, mode 1) is issued before the child is forked; the clearing call
\* (no names, count 0) is issued at most once, by the parent, after wait
\* has returned or fork has failed, never by the child; when the program
\* has exited it was issued exactly once and its result is the exit status.
C10_RegisterForkClear ==
    CommandMode =>
        /\ \A k \in 1..Len(syscalls) :
              /\ syscalls[k].nr = 335
              /\ syscalls[k].by = "parent"
        /\ (child_pc # "none" \/ im_pc \notin {"start", "fork"}) =>
              /\ Len(syscalls) >= 1
              /\ syscalls[1].child = "none"
              /\ syscalls[1].count = 1
              /\ syscalls[1].mode = 1
              /\ argv[3] = CMD_LS => syscalls[1].names = <<CMD_LS>>
              /\ argv[3] = CMD_AOUT
                     => syscalls[1].names = << <<"a", ".", "o", "u", "t">> >>
              /\ argv[3] = CMD_BINLS => syscalls[1].names = <<CMD_LS>>
        /\ Cardinality(ClearingCalls) <= 1
        /\ \A k \in ClearingCalls :
              /\ k = 2
              /\ syscalls[k].mode = 1
              /\ \/ syscalls[k].child = "reaped"
                 \/ syscalls[k].child = "none" /\ pid = -1
        /\ im_pc \in {"return", "exited"} =>
              /\ ClearingCalls = {2}
              /\ im_ret = syscalls[2].ret
        /\ im_pc = "exited" => im_exit = ExitStatus(syscalls[2].ret)

C10_Witness ==
    /\ CommandMode
    /\ argv[3] = CMD_AOUT
    /\ im_pc = "exited"
    /\ child_pc = "reaped"
    /\ wstatus = 0
    /\ Len(syscalls) = 2
    /\ syscalls[2].ret = -1
    /\ im_exit = 255

====
